---- MODULE Spec2Model ----
(***************************************************************************)
(* A model of rfc39: the reconciliation of the GitHub maintainer team      *)
(* against the maintainer list of nixpkgs (src/op_sync_team.rs) and the    *)
(* list of previously invited users (src/invited.rs).                      *)
(*                                                                         *)
(* An Option<T> of the source is the set of its values: {} is None and {v} *)
(* is Some(v).  A Result<T, E> whose error is only logged is modelled the  *)
(* same way: {} is Err(_) and {v} is Ok(v).  A HashMap is a function, a    *)
(* HashSet a set, and the unspecified iteration order of a HashMap is a    *)
(* choice made by the action that iterates.                                *)
(***************************************************************************)
EXTENDS Naturals, Integers, Sequences, FiniteSets, TLC

\* Bounds of the model.
MaxId == 2
MaxLimit == 1
MaxSources == 2
MaxLines == 2
MaxFileLines == 2

\* GitHub ids (GitHubID, a u64), maintainer handles, the logins the maintainer
\* list and the team record, and the logins GitHub reports for invitations.
IDs == 1..MaxId
Handles == {"h1", "h2"}
Logins == {"alice", "bob"}
Names == Logins \cup {"Alice"}

VARIABLES
    pc,               \* position: "idle", "loop", "done" (a run); "diffed", "rediffed" (the diff alone)
    maintainers,      \* MaintainerList: Handle -> Information
    current_members,  \* HashMap<GitHubID, GitHubName> fetched from the team
    diff,             \* HashMap<GitHubID, TeamAction>
    todo,             \* keys of diff the for loop has not yielded yet
    applied,          \* the team after the actions applied so far
    dry_run,          \* SyncTeamParams::dry_run
    limit,            \* Option<i64>
    invited_list,     \* Option<PathBuf>: {} or {"path"}
    pending_invites,  \* Vec<GitHubName>, as the set of its elements
    invited,          \* Invited::invited of the run
    additions,        \* rfc39_team_sync_additions
    removals,         \* rfc39_team_sync_removals
    noops,            \* rfc39_team_sync_noops
    errors,           \* rfc39_team_sync_errors
    id_mismatch,      \* rfc39_github_username_id_mismatch
    cur,              \* the (github_id, action) the loop body ran last, {} before
    calls,            \* the remote calls of the last loop body, in order
    mutations,        \* add_user and remove_user calls issued by the run
    result,           \* what sync_team returned: {} while running, {"Ok"} or {"Err"}
    file,             \* the file at the invited-list path: None, or Some of its lines
    contacted,        \* ids invited through the file and not removed since
    claimed,          \* the (github_name, github_id) check_user_hash is given
    commit_hash,      \* the commit_hash check_user_hash is given
    commit,           \* the Result of commits().get(commit_hash): the author or Err
    confidence,       \* what check_user_hash returned: Option<Confidence>
    last_op,          \* per id, the last of Invited::add / Invited::remove called on it
    sources,          \* MaintainerHistory::sources, the most recent first
    user,             \* the Handle commit_for_user is given
    examined,         \* the sources the for loop of commit_for_user has gone through
    resolved,         \* what commit_for_user returned: Option<&str>
    ids_map,          \* backfill_file: the HashMap<GitHubName, GitHubID>, as it shrinks
    input,            \* backfill_file: the lines of the file
    line_no,          \* backfill_file: the lines mapped so far
    output,           \* backfill_file: the lines of the String collected so far
    missing_ids,      \* backfill_ids: the handles the filter_maps have not seen yet
    found_ids,        \* backfill_ids: the (GitHubName, GitHubID) pairs collected so far
    verdicts          \* backfill_ids: Handle -> what get and confidence_for_user returned

vars == <<pc, maintainers, current_members, diff, todo, applied, dry_run,
          limit, invited_list, pending_invites, invited, additions, removals,
          noops, errors, id_mismatch, cur, calls, mutations, result, file,
          contacted, claimed, commit_hash, commit, confidence, last_op,
          sources, user, examined, resolved, ids_map, input, line_no, output,
          missing_ids, found_ids, verdicts>>

sync_vars == <<dry_run, limit, invited_list, pending_invites, invited,
               additions, removals, noops, errors, id_mismatch, cur, calls,
               mutations, result, file, contacted>>

score_vars == <<claimed, commit_hash, commit, confidence>>

ledger_vars == <<last_op>>

resolve_vars == <<sources, user, examined, resolved>>

munge_vars == <<ids_map, input, line_no, output>>

backfill_vars == <<missing_ids, found_ids, verdicts>>

\* the state of the ledger on its own, of commit_for_user, of backfill_file
\* and of backfill_ids
tool_vars == <<last_op, sources, user, examined, resolved, ids_map, input,
               line_no, output, missing_ids, found_ids, verdicts>>

\* Some(v) / None
Some(v) == {v}
None == {}
unwrap(o) == CHOOSE v \in o : TRUE
OptionOf(S) == {None} \cup {Some(v) : v \in S}

----------------------------------------------------------------------------
\* maintainers.rs

\* str::to_lowercase on the logins of the model
to_lowercase(n) ==
    IF n = "Alice" THEN "alice"
    ELSE IF n = "Mic92" THEN "mic92"
    ELSE n

\* impl PartialEq for GitHubName
\* GitHubName compared byte for byte
GitHubName_eq_exact(a, b) == a = b

GitHubName_eq(a, b) == to_lowercase(a) = to_lowercase(b)

\* struct Information, the fields the team sync reads
Information == [github : OptionOf(Logins), github_id : OptionOf(IDs)]

\* MaintainerList over a set of handles
MaintainerLists(hs) == [hs -> Information]

\* the maps a team can be fetched as
TeamSnapshots == UNION {[S -> Logins] : S \in SUBSET IDs}

----------------------------------------------------------------------------
\* op_sync_team.rs: enum TeamAction
Add(github_name, github_id, handle) ==
    [tag |-> "Add", name |-> github_name, id |-> github_id, handle |-> handle]
Remove(github_name, github_id) ==
    [tag |-> "Remove", name |-> github_name, id |-> github_id]
Keep(handle) == [tag |-> "Keep", handle |-> handle]

\* HashMap::insert
insert(m, k, v) == [x \in (DOMAIN m) \cup {k} |-> IF x = k THEN v ELSE m[x]]

\* HashMap::remove
remove(m, k) == [x \in (DOMAIN m) \ {k} |-> m[x]]

\* the orders in which a HashMap with key set S can be iterated
Orders(S) == {o \in [1..Cardinality(S) -> S] : \A x \in S : \E i \in DOMAIN o : o[i] = x}

\* diff_entry joining the team on the login instead of the id
diff_entry_by_name(handle, m, teammembers) ==
    IF m.github_id = None THEN None
    ELSE IF m.github /= None /\ \E k \in DOMAIN teammembers : teammembers[k] = unwrap(m.github)
         THEN Some(<<unwrap(m.github_id), Keep(handle)>>)
         ELSE IF m.github = None THEN None
              ELSE Some(<<unwrap(m.github_id),
                          Add(unwrap(m.github), unwrap(m.github_id), handle)>>)

\* diff_entry keeping a maintainer whose login is on the team under another id
diff_entry_id_or_name(handle, m, teammembers) ==
    IF m.github_id = None THEN None
    ELSE IF \/ unwrap(m.github_id) \in DOMAIN teammembers
            \/ m.github /= None /\ \E k \in DOMAIN teammembers : teammembers[k] = unwrap(m.github)
         THEN Some(<<unwrap(m.github_id), Keep(handle)>>)
         ELSE IF m.github = None THEN None
              ELSE Some(<<unwrap(m.github_id),
                          Add(unwrap(m.github), unwrap(m.github_id), handle)>>)

\* diff_entry matching a maintainer without an id to the team by login
diff_entry_idless_by_name(handle, m, teammembers) ==
    IF m.github_id = None
    THEN IF m.github /= None /\ \E k \in DOMAIN teammembers : teammembers[k] = unwrap(m.github)
         THEN Some(<<CHOOSE k \in DOMAIN teammembers : teammembers[k] = unwrap(m.github),
                     Keep(handle)>>)
         ELSE None
    ELSE IF unwrap(m.github_id) \in DOMAIN teammembers
         THEN Some(<<unwrap(m.github_id), Keep(handle)>>)
         ELSE IF m.github = None THEN None
              ELSE Some(<<unwrap(m.github_id),
                          Add(unwrap(m.github), unwrap(m.github_id), handle)>>)

\* diff_entry with the membership test inverted
diff_entry_inverted(handle, m, teammembers) ==
    IF m.github_id = None THEN None
    ELSE IF unwrap(m.github_id) \notin DOMAIN teammembers
         THEN Some(<<unwrap(m.github_id), Keep(handle)>>)
         ELSE IF m.github = None THEN None
              ELSE Some(<<unwrap(m.github_id),
                          Add(unwrap(m.github), unwrap(m.github_id), handle)>>)

\* the closure of filter_map in maintainer_team_diff: None, or Some of the
\* (key, action) pair of one maintainer
diff_entry(handle, m, teammembers) ==
    IF m.github_id = None THEN None
    ELSE IF unwrap(m.github_id) \in DOMAIN teammembers
         THEN Some(<<unwrap(m.github_id), Keep(handle)>>)
         ELSE IF m.github = None THEN None
              ELSE Some(<<unwrap(m.github_id),
                          Add(unwrap(m.github), unwrap(m.github_id), handle)>>)

\* .filter_map(..).collect() over the maintainers yielded in `order`:
\* a later pair replaces an earlier one with the same key
RECURSIVE collect_entries(_, _, _, _)
collect_entries(order, i, list, teammembers) ==
    IF i = 0 THEN << >>
    ELSE LET rest == collect_entries(order, i - 1, list, teammembers)
             e == diff_entry(order[i], list[order[i]], teammembers)
         IN IF e = None THEN rest ELSE insert(rest, unwrap(e)[1], unwrap(e)[2])

\* add_removals returning the removals alone
add_removals_only(d, teammembers) ==
    [k \in (DOMAIN teammembers) \ (DOMAIN d) |-> Remove(teammembers[k], k)]

\* add_removals with the contains_key test inverted
add_removals_inverted(d, teammembers) ==
    [k \in (DOMAIN d) \cup (DOMAIN teammembers) |->
        IF k \in DOMAIN teammembers /\ k \in DOMAIN d THEN Remove(teammembers[k], k)
        ELSE IF k \in DOMAIN d THEN d[k] ELSE Remove(teammembers[k], k)]

\* the loop over teammembers that creates the removals
add_removals(d, teammembers) ==
    [k \in (DOMAIN d) \cup (DOMAIN teammembers) |->
        IF k \in DOMAIN d THEN d[k] ELSE Remove(teammembers[k], k)]

\* fn maintainer_team_diff, with the order in which the list is iterated
maintainer_team_diff(order, list, teammembers) ==
    add_removals(collect_entries(order, Len(order), list, teammembers), teammembers)

\* what one action does to the team when its remote call takes effect
apply_action(team, k, action) ==
    IF action.tag = "Add" THEN insert(team, k, action.name)
    ELSE IF action.tag = "Remove" THEN remove(team, k)
    ELSE team

----------------------------------------------------------------------------
\* The diff on its own: the inputs are drawn, the diff is computed, its
\* actions are applied one by one to the team and the diff is computed again.

\* no claim is being scored: sync_team and maintainer_team_diff do not score
NotScoring ==
    /\ claimed = None /\ commit_hash = None /\ commit = None /\ confidence = None

\* no history of calls is kept for the invited list
NoLedgerHistory == last_op = << >>

\* commit_for_user is not running
NotResolving ==
    /\ sources = << >> /\ user = None /\ examined = 0 /\ resolved = None

\* backfill_file is not running
NotMunging ==
    /\ ids_map = << >> /\ input = << >> /\ line_no = 0 /\ output = << >>

\* backfill_ids is not running
NotBackfilling == missing_ids = {} /\ found_ids = << >> /\ verdicts = << >>

InitSync ==
    /\ dry_run = FALSE /\ limit = None /\ invited_list = None
    /\ pending_invites = {} /\ invited = {}
    /\ additions = 0 /\ removals = 0 /\ noops = 0 /\ errors = 0
    /\ id_mismatch = 0 /\ cur = None /\ calls = << >> /\ mutations = 0
    /\ result = None /\ file = << >> /\ contacted = {}

InitDiff ==
    /\ pc = "idle"
    /\ maintainers \in UNION {MaintainerLists(hs) : hs \in SUBSET Handles}
    /\ current_members \in TeamSnapshots
    /\ diff = << >> /\ todo = {}
    /\ applied = current_members
    /\ InitSync
    /\ NotScoring
    /\ NoLedgerHistory /\ NotResolving /\ NotMunging /\ NotBackfilling

Reconcile ==
    /\ pc = "idle"
    /\ \E order \in Orders(DOMAIN maintainers) :
          diff' = maintainer_team_diff(order, maintainers, current_members)
    /\ todo' = DOMAIN diff'
    /\ pc' = "diffed"
    /\ UNCHANGED <<maintainers, current_members, applied>>
    /\ UNCHANGED <<sync_vars, score_vars, tool_vars>>

ApplyAction ==
    /\ pc = "diffed"
    /\ \E k \in todo :
          /\ applied' = apply_action(applied, k, diff[k])
          /\ todo' = todo \ {k}
    /\ UNCHANGED <<pc, maintainers, current_members, diff>>
    /\ UNCHANGED <<sync_vars, score_vars, tool_vars>>

ReconcileAgain ==
    /\ pc = "diffed" /\ todo = {}
    /\ \E order \in Orders(DOMAIN maintainers) :
          diff' = maintainer_team_diff(order, maintainers, applied)
    /\ pc' = "rediffed"
    /\ UNCHANGED <<maintainers, current_members, todo, applied>>
    /\ UNCHANGED <<sync_vars, score_vars, tool_vars>>

NextDiff == Reconcile \/ ApplyAction \/ ReconcileAgain

SpecDiff == InitDiff /\ [][NextDiff]_vars

----------------------------------------------------------------------------
\* invited.rs: the list of previously invited users and its file.  The file
\* is a sequence of lines and a line a sequence of characters.

Digits == <<"0", "1", "2", "3", "4", "5", "6", "7", "8", "9">>

\* u64::to_string
RECURSIVE to_string(_)
to_string(n) ==
    IF n < 10 THEN <<Digits[n + 1]>>
    ELSE Append(to_string(n \div 10), Digits[(n % 10) + 1])

digit_value(c) == CHOOSE d \in 0..9 : Digits[d + 1] = c
is_digit(c) == \E d \in 0..9 : Digits[d + 1] = c

RECURSIVE digits_value(_)
digits_value(ds) ==
    IF Len(ds) = 0 THEN 0
    ELSE 10 * digits_value(SubSeq(ds, 1, Len(ds) - 1)) + digit_value(ds[Len(ds)])

\* str::parse::<u64>: an optional plus sign and at least one decimal digit
parse(line) ==
    LET ds == IF Len(line) > 0 /\ line[1] = "+" THEN Tail(line) ELSE line
    IN  IF Len(ds) = 0 \/ \E i \in DOMAIN ds : ~is_digit(ds[i]) THEN None
        ELSE Some(digits_value(ds))

\* the order of GitHubID that Vec::sort uses: that of the u64 it wraps
GitHubID_le(a, b) == a <= b

\* Vec::sort of the ids of a set
RECURSIVE sorted(_)
sorted(S) ==
    IF S = {} THEN << >>
    ELSE LET least == CHOOSE x \in S : \A y \in S : GitHubID_le(x, y)
         IN  <<least>> \o sorted(S \ {least})

\* descending(S): the ids of a set from the greatest to the least
RECURSIVE descending(_)
descending(S) ==
    IF S = {} THEN << >>
    ELSE LET greatest == CHOOSE x \in S : \A y \in S : GitHubID_le(y, x)
         IN  <<greatest>> \o descending(S \ {greatest})

\* the decimal strings of a sequence of ids, one after the other
RECURSIVE concat_strings(_)
concat_strings(values) ==
    IF values = << >> THEN << >>
    ELSE to_string(Head(values)) \o concat_strings(Tail(values))

\* Invited::save writing the ids in another order than ascending
Invited_save_unsorted(ids) ==
    [i \in 1..Cardinality(ids) |-> to_string(descending(ids)[i])]

\* Invited::save joining the ids with nothing between them
Invited_save_joined(ids) ==
    IF ids = {} THEN << >> ELSE <<concat_strings(sorted(ids))>>

\* Invited::save: the lines written to the file
Invited_save(ids) == [i \in 1..Cardinality(ids) |-> to_string(sorted(ids)[i])]

\* Invited::load passing over the lines that do not parse
Invited_load_skipping(lines) ==
    Some({unwrap(parse(lines[i])) : i \in {j \in DOMAIN lines : parse(lines[j]) /= None}})

\* Invited::load on the lines of a file: Err on a line that does not parse
Invited_load(lines) ==
    IF \E i \in DOMAIN lines : parse(lines[i]) = None THEN None
    ELSE Some({unwrap(parse(lines[i])) : i \in DOMAIN lines})

\* OpenOptions::new().read(true).write(true).create(true).open(path):
\* the lines of the file, which is created empty when it does not exist
open_or_create(f) == IF f = None THEN << >> ELSE unwrap(f)

\* Invited::load opening the file without creating it: Err when it is missing
Invited_load_existing(f) == IF f = None THEN None ELSE Invited_load(unwrap(f))

\* Invited::load(logger, path) on the file at the path
Invited_load_path(f) == Invited_load(open_or_create(f))

\* Invited::len
Invited_len(ids) == Cardinality(ids)

Invited_contains(ids, id) == id \in ids

\* Invited::add removing an id that is present
Invited_add_toggle(ids, id) == IF id \in ids THEN ids \ {id} ELSE ids \cup {id}

Invited_add(ids, id) == ids \cup {id}
Invited_remove(ids, id) == ids \ {id}

----------------------------------------------------------------------------
\* op_sync_team.rs: fn sync_team

\* limit_reached comparing with > instead of >=
limit_reached_gt(adds, rems, lim) == lim /= None /\ adds + rems > unwrap(lim)

\* the test of the change limit at the top of the loop body
limit_reached(adds, rems, lim) == lim /= None /\ adds + rems >= unwrap(lim)

\* do_it_live never set
do_it_live_never(dry) == FALSE

\* do_it_live ignoring the dry-run flag
do_it_live_always(dry) == TRUE

\* let do_it_live = !dry_run
do_it_live(dry) == ~dry

\* pending_invites.contains(&github_name)
\* the pending invitations never consulted
has_pending_invite_never(pending, github_name) == FALSE

has_pending_invite(pending, github_name) ==
    \E p \in pending : GitHubName_eq(p, github_name)

\* verified accepting every user the lookup returns
verified_any(get_user, github_id) == get_user /= None

\* `if let Ok(Some(_)) = get_user`: the lookup succeeded and returned the id
verified(get_user, github_id) == get_user = Some(github_id)

\* add_outcome recording the invitation whatever add_user returned
add_outcome_always(ids, id, ok) == Invited_add(ids, id)

\* `match add_attempt`: the invited list after add_user returned
add_outcome(ids, id, ok) == IF ok THEN Invited_add(ids, id) ELSE ids

\* remove_outcome forgetting the invitation whatever remove_user returned
remove_outcome_always(ids, id, ok) == Invited_remove(ids, id)

\* `match remove_attempt`: the invited list after remove_user returned
remove_outcome(ids, id, ok) == IF ok THEN Invited_remove(ids, id) ELSE ids

GetUser(name, res) == [op |-> "get_user", name |-> name, res |-> res]
AddUser(name, ok) == [op |-> "add_user", name |-> name, ok |-> ok]
RemoveUser(name, ok) == [op |-> "remove_user", name |-> name, ok |-> ok]

\* the maintainer lists of the runs: every handle is listed, "h1" with the
\* login "alice" or none and "h2" with the login "bob" or none
SyncLists ==
    {l \in MaintainerLists(Handles) :
        l["h1"].github /= Some("bob") /\ l["h2"].github /= Some("alice")}

\* the teams of the runs: no two members have the same login
SyncTeams ==
    {t \in TeamSnapshots : \A j, k \in DOMAIN t : t[j] = t[k] => j = k}

\* the files the run can find: none, or one a previous run saved
\* files that Invited::save does not write but Invited::load reads: ids out
\* of order, an id twice, a plus sign
UnsortedFiles ==
    {Some(<<to_string(2), to_string(1)>>),
     Some(<<to_string(18), to_string(18), to_string(0)>>),
     Some(<<<<"+">> \o to_string(1)>>)}

\* files with a line that is not a u64: a blank line, letters, a space after
\* the digits, a minus sign
MalformedFiles ==
    {Some(<<to_string(1), << >>, to_string(2)>>),
     Some(<<<<"x">>>>),
     Some(<<Append(to_string(1), " ")>>),
     Some(<<<<"-">> \o to_string(1)>>)}

SavedFiles == {None} \cup {Some(Invited_save(S)) : S \in SUBSET IDs}

Init ==
    /\ pc = "idle"
    /\ maintainers = << >> /\ current_members = << >>
    /\ diff = << >> /\ todo = {} /\ applied = << >>
    /\ dry_run = FALSE /\ limit = None /\ invited_list = None
    /\ pending_invites = {} /\ invited = {}
    /\ additions = 0 /\ removals = 0 /\ noops = 0 /\ errors = 0
    /\ id_mismatch = 0 /\ cur = None /\ calls = << >> /\ mutations = 0
    /\ result = None
    /\ file \in SavedFiles \cup MalformedFiles
    /\ contacted = IF file = None \/ Invited_load(unwrap(file)) = None THEN {}
                   ELSE unwrap(Invited_load(unwrap(file)))
    /\ NotScoring
    /\ NoLedgerHistory /\ NotResolving /\ NotMunging /\ NotBackfilling

diff_vars == <<maintainers, current_members, applied>>

\* sync_team up to the for loop: the team, the invited list and the pending
\* invitations are fetched and the diff is computed.  The maintainer list is
\* moved into maintainer_team_diff and the team is not read again, so the run
\* keeps the diff only.
StartRun ==
    /\ pc = "idle"
    /\ dry_run' \in BOOLEAN
    /\ limit' \in OptionOf(0..MaxLimit)
    /\ invited_list' \in OptionOf({"path"})
    /\ invited_list' = None => file = None
    /\ pending_invites' \in {{}, {"Alice"}, {"bob"}}
    /\ IF invited_list' /= None
       THEN /\ Invited_load(open_or_create(file)) /= None
            /\ invited' = unwrap(Invited_load(open_or_create(file)))
            /\ file' = Some(open_or_create(file))
       ELSE /\ invited' = {}
            /\ file' = file
    /\ \E list \in SyncLists, team \in SyncTeams :
          \E order \in Orders(DOMAIN list) :
              diff' = maintainer_team_diff(order, list, team)
    /\ todo' = DOMAIN diff'
    /\ pc' = "loop"
    /\ UNCHANGED <<additions, removals, noops, errors, id_mismatch, cur, calls,
                   mutations, result, contacted>>
    /\ UNCHANGED <<diff_vars, score_vars, tool_vars>>

\* Invited::load fails on the file at the invited-list path and `?` returns
\* the error from sync_team: the team was fetched, the pending invitations
\* and the diff were not
LoadFailed ==
    /\ pc = "idle"
    /\ dry_run' \in BOOLEAN
    /\ limit' \in OptionOf(0..MaxLimit)
    /\ invited_list' = Some("path")
    /\ Invited_load(open_or_create(file)) = None
    /\ file' = Some(open_or_create(file))
    /\ result' = Some("Err")
    /\ pc' = "failed"
    /\ UNCHANGED <<diff, todo, pending_invites, invited, additions, removals,
                   noops, errors, id_mismatch, cur, calls, mutations, contacted>>
    /\ UNCHANGED <<diff_vars, score_vars, tool_vars>>

\* the for loop given up at the first error counted
Yield_until_error(k) ==
    /\ pc = "loop"
    /\ k \in todo
    /\ errors = 0
    /\ ~limit_reached(additions, removals, limit)
    /\ todo' = todo \ {k}
    /\ cur' = Some([key |-> k, action |-> diff[k]])
    /\ UNCHANGED <<pc, diff, dry_run, limit, invited_list, pending_invites,
                   result, file>>
    /\ UNCHANGED <<diff_vars, score_vars, tool_vars>>

\* the for loop yields the entry of key k and the limit lets the body run
Yield(k) ==
    /\ pc = "loop"
    /\ k \in todo
    /\ ~limit_reached(additions, removals, limit)
    /\ todo' = todo \ {k}
    /\ cur' = Some([key |-> k, action |-> diff[k]])
    /\ UNCHANGED <<pc, diff, dry_run, limit, invited_list, pending_invites,
                   result, file>>
    /\ UNCHANGED <<diff_vars, score_vars, tool_vars>>

\* the limit is reached: `return Ok(())` inside the loop
HitLimit ==
    /\ pc = "loop"
    /\ todo /= {}
    /\ limit_reached(additions, removals, limit)
    /\ pc' = "done"
    /\ result' = Some("Ok")
    /\ UNCHANGED <<diff, todo, dry_run, limit, invited_list, pending_invites,
                   invited, additions, removals, noops, errors, id_mismatch,
                   cur, calls, mutations, file, contacted>>
    /\ UNCHANGED <<diff_vars, score_vars, tool_vars>>

AddPending ==
    \E k \in todo :
        /\ Yield(k)
        /\ diff[k].tag = "Add"
        /\ has_pending_invite(pending_invites, diff[k].name)
        /\ noops' = noops + 1
        /\ calls' = << >>
        /\ UNCHANGED <<invited, additions, removals, errors, id_mismatch,
                       mutations, contacted>>

AddInvited ==
    \E k \in todo :
        /\ Yield(k)
        /\ diff[k].tag = "Add"
        /\ ~has_pending_invite(pending_invites, diff[k].name)
        /\ Invited_contains(invited, diff[k].id)
        /\ noops' = noops + 1
        /\ calls' = << >>
        /\ UNCHANGED <<invited, additions, removals, errors, id_mismatch,
                       mutations, contacted>>

\* the Add that is attempted without being counted
AddCounted_uncounted(k) ==
    /\ Yield(k)
    /\ diff[k].tag = "Add"
    /\ ~has_pending_invite(pending_invites, diff[k].name)
    /\ ~Invited_contains(invited, diff[k].id)
    /\ UNCHANGED <<additions, removals, noops>>

\* the Add whose user is neither pending nor invited before
AddCounted(k) ==
    /\ Yield(k)
    /\ diff[k].tag = "Add"
    /\ ~has_pending_invite(pending_invites, diff[k].name)
    /\ ~Invited_contains(invited, diff[k].id)
    /\ additions' = additions + 1
    /\ UNCHANGED <<removals, noops>>

AddDryRun ==
    \E k \in todo :
        /\ AddCounted(k)
        /\ ~do_it_live(dry_run)
        /\ calls' = << >>
        /\ UNCHANGED <<invited, errors, id_mismatch, mutations, contacted>>

AddLookupFailed ==
    \E k \in todo :
        /\ AddCounted(k)
        /\ do_it_live(dry_run)
        /\ calls' = <<GetUser(diff[k].name, None)>>
        /\ errors' = errors + 1
        /\ UNCHANGED <<invited, id_mismatch, mutations, contacted>>

AddMismatch ==
    \E k \in todo, found \in IDs :
        /\ AddCounted(k)
        /\ do_it_live(dry_run)
        /\ ~verified(Some(found), diff[k].id)
        /\ calls' = <<GetUser(diff[k].name, Some(found))>>
        /\ id_mismatch' = id_mismatch + (IF found /= diff[k].id THEN 1 ELSE 0)
        /\ UNCHANGED <<invited, errors, mutations, contacted>>

AddFailed ==
    \E k \in todo, found \in IDs :
        /\ AddCounted(k)
        /\ do_it_live(dry_run)
        /\ verified(Some(found), diff[k].id)
        /\ calls' = <<GetUser(diff[k].name, Some(found)), AddUser(diff[k].name, FALSE)>>
        /\ id_mismatch' = id_mismatch + (IF found /= diff[k].id THEN 1 ELSE 0)
        /\ mutations' = mutations + 1
        /\ errors' = errors + 1
        /\ invited' = add_outcome(invited, diff[k].id, FALSE)
        /\ UNCHANGED contacted

AddOk ==
    \E k \in todo, found \in IDs :
        /\ AddCounted(k)
        /\ do_it_live(dry_run)
        /\ verified(Some(found), diff[k].id)
        /\ calls' = <<GetUser(diff[k].name, Some(found)), AddUser(diff[k].name, TRUE)>>
        /\ id_mismatch' = id_mismatch + (IF found /= diff[k].id THEN 1 ELSE 0)
        /\ mutations' = mutations + 1
        /\ invited' = add_outcome(invited, diff[k].id, TRUE)
        /\ contacted' = IF invited_list /= None THEN contacted \cup {diff[k].id}
                        ELSE contacted
        /\ UNCHANGED errors

KeepMember ==
    \E k \in todo :
        /\ Yield(k)
        /\ diff[k].tag = "Keep"
        /\ noops' = noops + 1
        /\ calls' = << >>
        /\ UNCHANGED <<invited, additions, removals, errors, id_mismatch,
                       mutations, contacted>>

RemoveCounted(k) ==
    /\ Yield(k)
    /\ diff[k].tag = "Remove"
    /\ removals' = removals + 1
    /\ UNCHANGED <<additions, noops>>

RemoveDryRun ==
    \E k \in todo :
        /\ RemoveCounted(k)
        /\ ~do_it_live(dry_run)
        /\ calls' = << >>
        /\ UNCHANGED <<invited, errors, id_mismatch, mutations, contacted>>

RemoveLookupFailed ==
    \E k \in todo :
        /\ RemoveCounted(k)
        /\ do_it_live(dry_run)
        /\ calls' = <<GetUser(diff[k].name, None)>>
        /\ errors' = errors + 1
        /\ UNCHANGED <<invited, id_mismatch, mutations, contacted>>

RemoveMismatch ==
    \E k \in todo, found \in IDs :
        /\ RemoveCounted(k)
        /\ do_it_live(dry_run)
        /\ ~verified(Some(found), diff[k].id)
        /\ calls' = <<GetUser(diff[k].name, Some(found))>>
        /\ id_mismatch' = id_mismatch + (IF found /= diff[k].id THEN 1 ELSE 0)
        /\ UNCHANGED <<invited, errors, mutations, contacted>>

RemoveFailed ==
    \E k \in todo, found \in IDs :
        /\ RemoveCounted(k)
        /\ do_it_live(dry_run)
        /\ verified(Some(found), diff[k].id)
        /\ calls' = <<GetUser(diff[k].name, Some(found)), RemoveUser(diff[k].name, FALSE)>>
        /\ id_mismatch' = id_mismatch + (IF found /= diff[k].id THEN 1 ELSE 0)
        /\ mutations' = mutations + 1
        /\ errors' = errors + 1
        /\ invited' = remove_outcome(invited, diff[k].id, FALSE)
        /\ UNCHANGED contacted

RemoveOk ==
    \E k \in todo, found \in IDs :
        /\ RemoveCounted(k)
        /\ do_it_live(dry_run)
        /\ verified(Some(found), diff[k].id)
        /\ calls' = <<GetUser(diff[k].name, Some(found)), RemoveUser(diff[k].name, TRUE)>>
        /\ id_mismatch' = id_mismatch + (IF found /= diff[k].id THEN 1 ELSE 0)
        /\ mutations' = mutations + 1
        /\ invited' = remove_outcome(invited, diff[k].id, TRUE)
        /\ contacted' = contacted \ {diff[k].id}
        /\ UNCHANGED errors

\* the loop is over: the invited list is saved and sync_team returns Ok
Finish ==
    /\ pc = "loop"
    /\ todo = {}
    /\ file' = IF invited_list /= None THEN Some(Invited_save(invited)) ELSE file
    /\ pc' = "done"
    /\ result' = Some("Ok")
    /\ UNCHANGED <<diff, todo, dry_run, limit, invited_list, pending_invites,
                   invited, additions, removals, noops, errors, id_mismatch,
                   cur, calls, mutations, contacted>>
    /\ UNCHANGED <<diff_vars, score_vars, tool_vars>>

\* the process exits and the next invocation starts: only the file is kept
NextInvocation ==
    /\ pc = "done"
    /\ pc' = "idle"
    /\ diff' = << >> /\ todo' = {}
    /\ dry_run' = FALSE /\ limit' = None /\ invited_list' = None
    /\ pending_invites' = {} /\ invited' = {}
    /\ additions' = 0 /\ removals' = 0 /\ noops' = 0 /\ errors' = 0
    /\ id_mismatch' = 0 /\ cur' = None /\ calls' = << >> /\ mutations' = 0
    /\ result' = None
    /\ UNCHANGED <<file, contacted>>
    /\ UNCHANGED <<diff_vars, score_vars, tool_vars>>

Run ==
    \/ StartRun
    \/ LoadFailed
    \/ HitLimit
    \/ AddPending
    \/ AddInvited
    \/ AddDryRun
    \/ AddLookupFailed
    \/ AddMismatch
    \/ AddFailed
    \/ AddOk
    \/ KeepMember
    \/ RemoveDryRun
    \/ RemoveLookupFailed
    \/ RemoveMismatch
    \/ RemoveFailed
    \/ RemoveOk
    \/ Finish

\* one invocation of sync-team
Next == Run

Spec == Init /\ [][Next]_vars

\* invocation after invocation over the same invited-list file
NextRuns == Run \/ NextInvocation

SpecRuns == Init /\ [][NextRuns]_vars

----------------------------------------------------------------------------
\* maintainerhistory.rs: check_user_hash, the scoring of a claimed
\* (github_name, github_id) against the author of a commit of nixpkgs.

\* the logins a maintainer entry claims
ClaimedNames == {"alice", "Alice", "mic92", "rlupton20", "zx2c4", "the-kenny"}

\* the logins GitHub reports for the author of a commit
AuthorLogins == {"alice", "offlinehacker", "Mic92", "bjornfor"}

\* commit hashes: the two the match arms name, and another one
Hashes == {"5bd136acd4c683b30470b5dfbb6f0b15dcea42a5",
           "6b1087d9b135c94b929fec3d4cf3724b9539c6b5",
           "d706fc953d0afe6bd060459f23f5e41a83c63a59"}

\* commit.author of a fetched commit
Authors == [login : AuthorLogins, id : IDs]

\* the (added user, added by, in commit) triples of the match arms
Overrides ==
    {<<"rlupton20", "offlinehacker", "5bd136acd4c683b30470b5dfbb6f0b15dcea42a5">>,
     <<"zx2c4", "Mic92", "6b1087d9b135c94b929fec3d4cf3724b9539c6b5">>,
     <<"the-kenny", "bjornfor", "6b1087d9b135c94b929fec3d4cf3724b9539c6b5">>}

\* check_user_hash with the arms of BadAttribution and ChangedHandle exchanged
check_user_hash_swapped(github_name, github_id, hash, fetched) ==
    IF fetched = None THEN Some("CommitMissing")
    ELSE LET author == unwrap(fetched)
             name_eq == GitHubName_eq(author.login, github_name)
             id_eq == author.id = github_id
         IN  IF name_eq /\ id_eq THEN Some("Total")
             ELSE IF ~name_eq /\ ~id_eq /\ <<github_name, author.login, hash>> \in Overrides
                  THEN Some("Total")
             ELSE IF name_eq /\ ~id_eq THEN Some("ChangedHandle")
             ELSE IF ~name_eq /\ id_eq THEN Some("BadAttribution")
             ELSE Some("MismatchedNameAndID")

\* check_user_hash with the three special arms after the general ones
check_user_hash_table_first(github_name, github_id, hash, fetched) ==
    IF fetched = None THEN Some("CommitMissing")
    ELSE LET author == unwrap(fetched)
             name_eq == GitHubName_eq(author.login, github_name)
             id_eq == author.id = github_id
         IN  IF name_eq /\ id_eq THEN Some("Total")
             ELSE IF name_eq /\ ~id_eq THEN Some("BadAttribution")
             ELSE IF ~name_eq /\ id_eq THEN Some("ChangedHandle")
             ELSE IF ~name_eq /\ ~id_eq THEN Some("MismatchedNameAndID")
             ELSE Some("Total")

\* check_user_hash giving no verdict when the commit cannot be fetched
check_user_hash_no_verdict(github_name, github_id, hash, fetched) ==
    IF fetched = None THEN None
    ELSE LET author == unwrap(fetched)
             name_eq == GitHubName_eq(author.login, github_name)
             id_eq == author.id = github_id
         IN  IF name_eq /\ id_eq THEN Some("Total")
             ELSE IF ~name_eq /\ ~id_eq /\ <<github_name, author.login, hash>> \in Overrides
                  THEN Some("Total")
             ELSE IF name_eq /\ ~id_eq THEN Some("BadAttribution")
             ELSE IF ~name_eq /\ id_eq THEN Some("ChangedHandle")
             ELSE Some("MismatchedNameAndID")

\* fn check_user_hash: fetched is the Result of commits().get(commit_hash),
\* the author of the commit or Err; the arms are tried in the order of the
\* match, the strings of the special arms are compared as they are written
check_user_hash(github_name, github_id, hash, fetched) ==
    IF fetched = None THEN Some("CommitMissing")
    ELSE LET author == unwrap(fetched)
             name_eq == GitHubName_eq(author.login, github_name)
             id_eq == author.id = github_id
         IN  IF name_eq /\ id_eq THEN Some("Total")
             ELSE IF ~name_eq /\ ~id_eq /\ <<github_name, author.login, hash>> \in Overrides
                  THEN Some("Total")
             ELSE IF name_eq /\ ~id_eq THEN Some("BadAttribution")
             ELSE IF ~name_eq /\ id_eq THEN Some("ChangedHandle")
             ELSE Some("MismatchedNameAndID")

\* check_user_hash is entered with a claim and a commit hash
InitScore ==
    /\ pc = "scoring"
    /\ maintainers = << >> /\ current_members = << >>
    /\ diff = << >> /\ todo = {} /\ applied = << >>
    /\ InitSync
    /\ claimed \in {Some(c) : c \in [github_name : ClaimedNames, github_id : IDs]}
    /\ commit_hash \in {Some(h) : h \in Hashes}
    /\ commit = None
    /\ confidence = None
    /\ NoLedgerHistory /\ NotResolving /\ NotMunging /\ NotBackfilling

\* the match on the Result of the fetch
Scored(fetched) ==
    /\ pc = "scoring"
    /\ commit' = fetched
    /\ confidence' = check_user_hash(unwrap(claimed).github_name,
                                      unwrap(claimed).github_id,
                                      unwrap(commit_hash), fetched)
    /\ pc' = "scored"
    /\ UNCHANGED <<claimed, commit_hash, diff, todo>>
    /\ UNCHANGED <<diff_vars, sync_vars, tool_vars>>

\* commits().get(commit_hash) returned the commit
CommitFetched == \E author \in Authors : Scored(Some(author))

\* commits().get(commit_hash) returned Err
CommitMissing == Scored(None)

NextScore == CommitFetched \/ CommitMissing

SpecScore == InitScore /\ [][NextScore]_vars

----------------------------------------------------------------------------
\* invited.rs on its own: an Invited is created, loaded, changed and saved.

\* the ids of the ledger: 0, the ids of the team and an id of two digits
LedgerIDs == (0..MaxId) \cup {18}

\* Invited::new(), and the file that may lie at the path
InitLedger ==
    /\ pc = "new"
    /\ maintainers = << >> /\ current_members = << >>
    /\ diff = << >> /\ todo = {} /\ applied = << >>
    /\ dry_run = FALSE /\ limit = None /\ invited_list = Some("path")
    /\ pending_invites = {} /\ invited = {}
    /\ additions = 0 /\ removals = 0 /\ noops = 0 /\ errors = 0
    /\ id_mismatch = 0 /\ cur = None /\ calls = << >> /\ mutations = 0
    /\ result = None /\ contacted = {}
    /\ file \in {None} \cup {Some(Invited_save(S)) : S \in SUBSET LedgerIDs}
                \cup UnsortedFiles \cup MalformedFiles
    /\ last_op = [id \in LedgerIDs |-> "none"]
    /\ NotScoring /\ NotResolving /\ NotMunging /\ NotBackfilling

\* what the actions of the ledger leave alone
LedgerFrame ==
    /\ UNCHANGED <<diff, todo, dry_run, limit, invited_list, pending_invites,
                   additions, removals, noops, errors, id_mismatch, cur, calls,
                   mutations, contacted>>
    /\ UNCHANGED <<diff_vars, score_vars, resolve_vars, munge_vars, backfill_vars>>

\* an Invited is at hand: created, loaded, changed or saved
LedgerAtHand == pc \in {"new", "loaded", "reloaded", "added", "removed", "saved"}

\* Invited::load returns Ok: the file exists from now on
LedgerLoad ==
    /\ LedgerAtHand
    /\ Invited_load_path(file) /= None
    /\ invited' = unwrap(Invited_load_path(file))
    /\ file' = Some(open_or_create(file))
    /\ last_op' = [id \in LedgerIDs |-> "none"]
    /\ result' = Some("Ok")
    /\ pc' = IF pc = "saved" THEN "reloaded" ELSE "loaded"
    /\ LedgerFrame

\* Invited::load returns Err: a line does not parse
LedgerLoadFailed ==
    /\ LedgerAtHand
    /\ Invited_load_path(file) = None
    /\ file' = Some(open_or_create(file))
    /\ result' = Some("Err")
    /\ pc' = "load_failed"
    /\ UNCHANGED <<invited, last_op>>
    /\ LedgerFrame

\* Invited::add
LedgerAdd ==
    /\ LedgerAtHand
    /\ \E id \in LedgerIDs :
          /\ invited' = Invited_add(invited, id)
          /\ last_op' = [last_op EXCEPT ![id] = "add"]
    /\ pc' = "added"
    /\ UNCHANGED <<file, result>>
    /\ LedgerFrame

\* Invited::remove
LedgerRemove ==
    /\ LedgerAtHand
    /\ \E id \in LedgerIDs :
          /\ invited' = Invited_remove(invited, id)
          /\ last_op' = [last_op EXCEPT ![id] = "remove"]
    /\ pc' = "removed"
    /\ UNCHANGED <<file, result>>
    /\ LedgerFrame

\* Invited::save
LedgerSave ==
    /\ LedgerAtHand
    /\ file' = Some(Invited_save(invited))
    /\ result' = Some("Ok")
    /\ pc' = "saved"
    /\ UNCHANGED <<invited, last_op>>
    /\ LedgerFrame

NextLedger ==
    \/ LedgerLoad
    \/ LedgerLoadFailed
    \/ LedgerAdd
    \/ LedgerRemove
    \/ LedgerSave

SpecLedger == InitLedger /\ [][NextLedger]_vars

----------------------------------------------------------------------------
\* maintainerhistory.rs: commit_for_user, the commit that git blame gives for
\* the line of a handle, looked for in the sources from the most recent one.

\* MaintainerHistory::barriers
Barriers == <<"220459858b342ec880d484160eb63319b7b83af8",
              "f7da7fa0c3ab40b79a2358861831b925d2cb5a6b",
              "dea3279593753f0dee2966cd3f0f1f84be5bfbe2",
              "a3a40b70892774792924824a9b8858a2ffd3489d",
              "b4f60add6a227bfeb106497c270b8126dad8f8d3",
              "a58a44e0c2106a87d258706f13cacc320adc8d32",
              "ac1c3c95e18f6e9839f2ca151c761d1b283831f1">>

\* the commits git blame names besides the barriers: one for each line of
\* each source
Revisions == <<<<"05d273a4", "cf1b51ab", "26b59efa", "822f4809">>,
               <<"8e462995", "15c4a360", "9ce5fb00", "d706fc95">>,
               <<"aa47bac0", "9175a201", "5bd136ac", "6b1087d9">>,
               <<"f1e2d3c4", "0a1b2c3d", "4e5f6a7b", "8c9d0e1f">>>>

\* the hash list of the source s: empty (git blame printed nothing), or
\* MaxLines lines, the lines of barrier_lines blamed on a barrier and every
\* other line on a commit of its own
hash_list_of(s, empty, barrier_lines) ==
    IF empty THEN << >>
    ELSE [l \in 1..MaxLines |->
             IF l \in barrier_lines THEN Barriers[s] ELSE Revisions[s][l]]

\* the positions of a source: the handle at the line n (from 0), or no handle
\* at all when n is None; the line MaxLines lies beyond the end of a hash list
positions_of(handle, n) ==
    IF n = None THEN << >> ELSE [h \in {handle} |-> unwrap(n)]

\* the sources of MaintainerHistory::load: n of them, each a pair
\* (hash_list, positions)
history_of(n, handle, empty, barrier_lines, line) ==
    [i \in 1..n |-> <<hash_list_of(i, empty[i], barrier_lines[i]),
                      positions_of(handle, line[i])>>]

\* barriers.contains never true
is_barrier_never(hash) == FALSE

\* self.barriers.contains(current_commit_hash)
is_barrier(hash) == \E i \in DOMAIN Barriers : Barriers[i] = hash

\* hash_list.get giving the last line for an index beyond the end
hash_at_clamped(hash_list, file_line) ==
    IF file_line + 1 \in DOMAIN hash_list THEN Some(hash_list[file_line + 1])
    ELSE IF Len(hash_list) > 0 THEN Some(hash_list[Len(hash_list)])
    ELSE None

\* hash_list.get(*file_line): Vec::get on an index that starts at 0
hash_at(hash_list, file_line) ==
    IF file_line + 1 \in DOMAIN hash_list THEN Some(hash_list[file_line + 1])
    ELSE None

\* positions.get(user)
position_of(positions, handle) ==
    IF handle \in DOMAIN positions THEN Some(positions[handle]) ELSE None

\* the body of the for loop over one source: Some(hash) when the body
\* returns, None when the loop goes on to the next source
source_answer(source, handle) ==
    LET hash_list == source[1]
        positions == source[2]
        file_line == position_of(positions, handle)
    IN  IF file_line = None THEN None
        ELSE LET current_commit_hash == hash_at(hash_list, unwrap(file_line))
             IN  IF current_commit_hash = None THEN None
                 ELSE IF is_barrier(unwrap(current_commit_hash)) THEN None
                 ELSE current_commit_hash

\* commit_for_user is entered with a handle
InitResolve ==
    /\ pc = "resolving"
    /\ maintainers = << >> /\ current_members = << >>
    /\ diff = << >> /\ todo = {} /\ applied = << >>
    /\ InitSync
    /\ NotScoring /\ NoLedgerHistory /\ NotMunging /\ NotBackfilling
    /\ user = Some("h1")
    /\ \E n \in 0..MaxSources :
          \E empty \in [1..n -> BOOLEAN],
             barrier_lines \in [1..n -> SUBSET (1..MaxLines)],
             line \in [1..n -> OptionOf(0..MaxLines)] :
              sources = history_of(n, "h1", empty, barrier_lines, line)
    /\ examined = 0
    /\ resolved = None

\* the for loop takes the next source
NextSource ==
    /\ pc = "resolving"
    /\ examined < Len(sources)
    /\ examined' = examined + 1
    /\ UNCHANGED <<sources, user, diff, todo>>
    /\ UNCHANGED <<diff_vars, sync_vars, score_vars, ledger_vars, munge_vars,
                   backfill_vars>>

\* `return Some(current_commit_hash)`
SourceAnswers ==
    /\ NextSource
    /\ source_answer(sources[examined'], unwrap(user)) /= None
    /\ resolved' = source_answer(sources[examined'], unwrap(user))
    /\ pc' = "resolved"

\* positions.get(user) is None: the source does not list the handle
SourceNotListed ==
    /\ NextSource
    /\ position_of(sources[examined'][2], unwrap(user)) = None
    /\ UNCHANGED <<resolved, pc>>

\* hash_list.get(*file_line) is None: the hash list has no such line
SourceLineMissing ==
    /\ NextSource
    /\ position_of(sources[examined'][2], unwrap(user)) /= None
    /\ hash_at(sources[examined'][1],
               unwrap(position_of(sources[examined'][2], unwrap(user)))) = None
    /\ UNCHANGED <<resolved, pc>>

\* the hash of the line is a barrier
SourceBarrier ==
    /\ NextSource
    /\ position_of(sources[examined'][2], unwrap(user)) /= None
    /\ hash_at(sources[examined'][1],
               unwrap(position_of(sources[examined'][2], unwrap(user)))) /= None
    /\ source_answer(sources[examined'], unwrap(user)) = None
    /\ UNCHANGED <<resolved, pc>>

\* the loop is over: `None`
NoSource ==
    /\ pc = "resolving"
    /\ examined = Len(sources)
    /\ resolved' = None
    /\ pc' = "resolved"
    /\ UNCHANGED <<sources, user, examined, diff, todo>>
    /\ UNCHANGED <<diff_vars, sync_vars, score_vars, ledger_vars, munge_vars,
                   backfill_vars>>

NextResolve ==
    \/ SourceAnswers
    \/ SourceNotListed
    \/ SourceLineMissing
    \/ SourceBarrier
    \/ NoSource

SpecResolve == InitResolve /\ [][NextResolve]_vars

----------------------------------------------------------------------------
\* filemunge.rs: backfill_file, which adds the githubId lines to the text of
\* the maintainer list.  A line is the sequence of its pieces: a whitespace
\* character, the text `github = "`, a run of characters other than the
\* double quote, the text `";`.

Whitespace == {" ", "\t"}

\* the pieces that hold a double quote
GithubOpen == "github = \""
QuoteClose == "\";"

\* the lines of the files: github lines with two, one and no whitespace
\* before them, with the login in another case, with no login, with a space
\* after the semicolon, another attribute and an empty line
MungeLines ==
    {<<" ", " ", GithubOpen, "alice", QuoteClose>>,
     <<"\t", GithubOpen, "bob", QuoteClose>>,
     <<" ", GithubOpen, "Alice", QuoteClose>>,
     <<GithubOpen, "alice", QuoteClose>>,
     <<" ", GithubOpen, "alice", QuoteClose, " ">>,
     <<" ", GithubOpen, QuoteClose>>,
     <<" ", "name = x;">>,
     << >>}

\* the files of up to MaxFileLines lines
MungeFiles == UNION {[1..n -> MungeLines] : n \in 0..MaxFileLines}

\* the maps from logins to ids
NameIds == UNION {[keys -> IDs] : keys \in SUBSET Logins}

\* the length of the longest run of whitespace the line starts with
RECURSIVE leading_whitespace(_)
leading_whitespace(line) ==
    IF line = << >> \/ Head(line) \notin Whitespace THEN 0
    ELSE 1 + leading_whitespace(Tail(line))

\* RE.captures(line) for ^(?P<leading_space>\s+)github = "(?P<name>[^"]*)";$
captures(line) ==
    LET n == leading_whitespace(line)
        rest == SubSeq(line, n + 1, Len(line))
    IN  IF /\ n >= 1
           /\ Len(rest) \in {2, 3}
           /\ rest[1] = GithubOpen
           /\ rest[Len(rest)] = QuoteClose
           /\ Len(rest) = 3 => rest[2] \notin {GithubOpen, QuoteClose}
        THEN Some([leading_space |-> SubSeq(line, 1, n),
                   name |-> IF Len(rest) = 3 THEN rest[2] ELSE ""])
        ELSE None

\* format!("{}githubId = {};", leading_space, id)
github_id_line(leading_space, id) ==
    leading_space \o <<"githubId = ">> \o to_string(id) \o <<";">>

\* the keys of the map that are the login as it is written: they hash as the
\* login does, so HashMap::remove finds them
same_keys(m, username) == {k \in DOMAIN m : k = username}

\* the keys of the map that are equal to the login as GitHubName compares but
\* are written in another case: #[derive(Hash)] hashes the String as it is
\* written, so whether HashMap::remove finds them is not specified
other_case_keys(m, username) ==
    {k \in DOMAIN m : k /= username /\ GitHubName_eq(k, username)}

\* backfill_file is entered with the map its caller found (found_ids, moved
\* into `mut ids`) and the text of a file
InitMunge ==
    /\ pc = "munging"
    /\ maintainers = << >> /\ current_members = << >>
    /\ diff = << >> /\ todo = {} /\ applied = << >>
    /\ InitSync
    /\ NotScoring /\ NoLedgerHistory /\ NotResolving
    /\ missing_ids = {}
    /\ verdicts = << >>
    /\ found_ids \in NameIds
    /\ ids_map = found_ids
    /\ input \in MungeFiles
    /\ line_no = 0
    /\ output = << >>

\* what the steps of backfill_file leave alone
MungeFrame ==
    /\ UNCHANGED <<input, diff, todo>>
    /\ UNCHANGED <<diff_vars, sync_vars, score_vars, ledger_vars, resolve_vars,
                   backfill_vars>>

\* the closure of map() is called on the next line
MapLine ==
    /\ pc = "munging"
    /\ line_no < Len(input)
    /\ line_no' = line_no + 1
    /\ UNCHANGED pc
    /\ MungeFrame

\* `return format!("{}\n", line)`
LineKept ==
    /\ output' = Append(output, input[line_no'])
    /\ UNCHANGED ids_map

\* `return format!("{}\n{}githubId = {};\n", line, leading_space, id)` with
\* the id that ids.remove gave for the key
LineBackfilled(key) ==
    /\ output' = output \o
          <<input[line_no'],
            github_id_line(unwrap(captures(input[line_no'])).leading_space,
                           ids_map[key])>>
    /\ ids_map' = remove(ids_map, key)

\* the line is not one the regular expression matches
MungePlainLine ==
    /\ MapLine
    /\ captures(input[line_no']) = None
    /\ LineKept

\* the line matches and no key of the map equals its login
MungeUnknownName ==
    /\ MapLine
    /\ captures(input[line_no']) /= None
    /\ same_keys(ids_map, unwrap(captures(input[line_no'])).name) = {}
    /\ other_case_keys(ids_map, unwrap(captures(input[line_no'])).name) = {}
    /\ LineKept

\* the line matches and its login, as it is written, is a key of the map
MungeKnownName ==
    /\ MapLine
    /\ captures(input[line_no']) /= None
    /\ \E key \in same_keys(ids_map, unwrap(captures(input[line_no'])).name) :
          LineBackfilled(key)

\* the line matches and its login is a key of the map in another case: the
\* hash of the login led ids.remove to that key
MungeOtherCaseFound ==
    /\ MapLine
    /\ captures(input[line_no']) /= None
    /\ \E key \in other_case_keys(ids_map, unwrap(captures(input[line_no'])).name) :
          LineBackfilled(key)

\* the line matches and its login is a key of the map in another case: the
\* hash of the login did not lead ids.remove to the key
MungeOtherCaseMissed ==
    /\ MapLine
    /\ captures(input[line_no']) /= None
    /\ same_keys(ids_map, unwrap(captures(input[line_no'])).name) = {}
    /\ other_case_keys(ids_map, unwrap(captures(input[line_no'])).name) /= {}
    /\ LineKept

\* collect(): the String is returned
MungeDone ==
    /\ pc = "munging"
    /\ line_no = Len(input)
    /\ pc' = "munged"
    /\ UNCHANGED <<ids_map, line_no, output>>
    /\ MungeFrame

NextMunge ==
    \/ MungePlainLine
    \/ MungeUnknownName
    \/ MungeKnownName
    \/ MungeOtherCaseFound
    \/ MungeOtherCaseMissed
    \/ MungeDone

SpecMunge == InitMunge /\ [][NextMunge]_vars

----------------------------------------------------------------------------
\* op_backfill.rs: backfill_ids, which looks up the ids the maintainer list
\* lacks, keeps those of Total confidence and prints the backfilled file.

\* the maintainer lists of the backfill: the logins are written in any case
BackfillLists == [Handles -> [github : OptionOf(Names), github_id : OptionOf(IDs)]]

\* the order of the entries in the file
HandleOrder == <<"h1", "h2">>

\* the lines of one entry of the file: the handle, the github attribute and
\* the githubId attribute
entry_lines(handle, m) ==
    <<<<" ", handle>>>>
    \o (IF m.github = None THEN << >>
        ELSE <<<<" ", " ", GithubOpen, unwrap(m.github), QuoteClose>>>>)
    \o (IF m.github_id = None THEN << >>
        ELSE <<github_id_line(<<" ", " ">>, unwrap(m.github_id))>>)

\* read_to_string(file): the text the maintainer list was evaluated from
RECURSIVE file_text(_, _)
file_text(ml, order) ==
    IF order = << >> THEN << >>
    ELSE entry_lines(Head(order), ml[Head(order)]) \o file_text(ml, Tail(order))

\* the filter of missing_ids: the maintainers with a login and no id
missing(ml) ==
    {h \in DOMAIN ml : ml[h].github /= None /\ ml[h].github_id = None}

\* MaintainerHistory::confidence_for_user: resolved is what commit_for_user
\* returned, fetched what commits().get returned for it
confidence_for_user(resolved_hash, github_name, github_id, fetched) ==
    IF resolved_hash = None THEN None
    ELSE check_user_hash(github_name, github_id, unwrap(resolved_hash), fetched)

\* the keys HashMap::insert can write to: the key as it is written when the
\* map holds it, a key that is equal in another case when the hash led to
\* it, and the new key when the map does not hold it as it is written
insert_slots(m, k) ==
    same_keys(m, k) \cup other_case_keys(m, k)
        \cup (IF same_keys(m, k) = {} THEN {k} ELSE {})

\* the outcome of the two filter_maps for one maintainer
Verdict(u, c) == [user |-> u, confidence |-> c]

\* backfill_ids is entered with the maintainer list of the file
InitBackfill ==
    /\ pc = "backfilling"
    /\ maintainers \in BackfillLists
    /\ current_members = << >>
    /\ diff = << >> /\ todo = {} /\ applied = << >>
    /\ InitSync
    /\ NotScoring /\ NoLedgerHistory /\ NotResolving /\ NotMunging
    /\ missing_ids = missing(maintainers)
    /\ found_ids = << >>
    /\ verdicts = << >>

\* what the steps of backfill_ids before backfill_file leave alone
BackfillFrame ==
    /\ UNCHANGED <<pc, diff, todo>>
    /\ UNCHANGED <<diff_vars, sync_vars, score_vars, ledger_vars, resolve_vars,
                   munge_vars>>

\* users().get returned Err: the first filter_map yields None
BackfillLookupFailed ==
    /\ pc = "backfilling"
    /\ \E handle \in missing_ids :
          /\ missing_ids' = missing_ids \ {handle}
          /\ verdicts' = insert(verdicts, handle, Verdict(None, None))
    /\ UNCHANGED found_ids
    /\ BackfillFrame

\* users().get returned the user and confidence_for_user returned None or a
\* Confidence other than Total: the second filter_map yields None
BackfillNotTotal ==
    /\ pc = "backfilling"
    /\ \E handle \in missing_ids, github_id \in IDs,
          resolved_hash \in OptionOf(Hashes), fetched \in OptionOf(Authors) :
          LET github_name == unwrap(maintainers[handle].github)
              c == confidence_for_user(resolved_hash, github_name, github_id, fetched)
          IN  /\ c /= Some("Total")
              /\ missing_ids' = missing_ids \ {handle}
              /\ verdicts' = insert(verdicts, handle, Verdict(Some(github_id), c))
    /\ UNCHANGED found_ids
    /\ BackfillFrame

\* users().get returned the user and confidence_for_user returned Total: the
\* pair is collected into found_ids
BackfillTotal ==
    /\ pc = "backfilling"
    /\ \E handle \in missing_ids, github_id \in IDs,
          resolved_hash \in OptionOf(Hashes), fetched \in OptionOf(Authors) :
          LET github_name == unwrap(maintainers[handle].github)
              c == confidence_for_user(resolved_hash, github_name, github_id, fetched)
          IN  /\ c = Some("Total")
              /\ missing_ids' = missing_ids \ {handle}
              /\ verdicts' = insert(verdicts, handle, Verdict(Some(github_id), c))
              /\ \E slot \in insert_slots(found_ids, github_name) :
                    found_ids' = insert(found_ids, slot, github_id)
    /\ BackfillFrame

\* the iterator is exhausted: backfill_file is called with found_ids and the
\* text of the file
BackfillFile ==
    /\ pc = "backfilling"
    /\ missing_ids = {}
    /\ pc' = "munging"
    /\ ids_map' = found_ids
    /\ input' = file_text(maintainers, HandleOrder)
    /\ UNCHANGED <<line_no, output, diff, todo>>
    /\ UNCHANGED <<diff_vars, sync_vars, score_vars, ledger_vars, resolve_vars,
                   backfill_vars>>

NextBackfill ==
    \/ BackfillLookupFailed
    \/ BackfillNotTotal
    \/ BackfillTotal
    \/ BackfillFile
    \/ NextMunge

SpecBackfill == InitBackfill /\ [][NextBackfill]_vars

----------------------------------------------------------------------------
\* Properties of maintainer_team_diff, stated on SpecDiff.

\* the ids the maintainer list knows
KnownIds(list) == {unwrap(list[h].github_id) : h \in {x \in DOMAIN list : list[x].github_id /= None}}

\* the ids of the maintainers that have both an id and a login
NamedIds(list) ==
    {unwrap(list[h].github_id) :
        h \in {x \in DOMAIN list : list[x].github_id /= None /\ list[x].github /= None}}

\* the handles that carry the id k
Carriers(list, k) == {h \in DOMAIN list : list[h].github_id = Some(k)}

\* the list without the maintainers that have no id
WithoutIdless(list) == [h \in {x \in DOMAIN list : list[x].github_id /= None} |-> list[h]]

\* the diffs the list and the team can give, over the iteration orders
Diffs(list, team) == {maintainer_team_diff(o, list, team) : o \in Orders(DOMAIN list)}

\* C1 as stated: the keys of the diff are exactly the ids the list knows
\* together with the ids of the team.
C1_Original ==
    pc = "diffed" =>
        DOMAIN diff = KnownIds(maintainers) \cup DOMAIN current_members

\* C1 amended: the keys of the diff are exactly the ids of the team together
\* with the ids of the maintainers that have both an id and a login; an id
\* known only from maintainers without a login, and not on the team, has no
\* action.
C1_DiffKeys ==
    pc = "diffed" =>
        DOMAIN diff = NamedIds(maintainers) \cup DOMAIN current_members

C1_Witness ==
    /\ pc = "diffed"
    /\ \E h \in DOMAIN maintainers :
          /\ maintainers[h].github_id /= None
          /\ maintainers[h].github = None
          /\ unwrap(maintainers[h].github_id) \notin DOMAIN diff
    /\ \E k \in DOMAIN diff : diff[k].tag = "Add"

\* C2: an id that the list knows and that is on the team is kept, under the
\* handle of a maintainer carrying that id, whatever the logins on the two sides.
C2_KeepPrecedence ==
    pc = "diffed" =>
        \A k \in KnownIds(maintainers) \cap DOMAIN current_members :
            /\ k \in DOMAIN diff
            /\ \E h \in Carriers(maintainers, k) : diff[k] = Keep(h)

C2_Witness ==
    /\ pc = "diffed"
    /\ \E h \in DOMAIN maintainers :
          /\ maintainers[h].github_id /= None
          /\ maintainers[h].github /= None
          /\ unwrap(maintainers[h].github_id) \in DOMAIN current_members
          /\ ~GitHubName_eq(current_members[unwrap(maintainers[h].github_id)],
                            unwrap(maintainers[h].github))
          /\ diff[unwrap(maintainers[h].github_id)] = Keep(h)

\* C7 as stated: every maintainer with an id that is not on the team gets
\* Add(login, id, handle) under that id.
C7_Original ==
    pc = "diffed" =>
        \A h \in DOMAIN maintainers :
            (/\ maintainers[h].github_id /= None
             /\ unwrap(maintainers[h].github_id) \notin DOMAIN current_members)
            => /\ unwrap(maintainers[h].github_id) \in DOMAIN diff
               /\ maintainers[h].github /= None
               /\ diff[unwrap(maintainers[h].github_id)] =
                     Add(unwrap(maintainers[h].github), unwrap(maintainers[h].github_id), h)

\* C7 amended: every maintainer with a login and an id that is not on the team
\* gets, under that id, the Add(login, id, handle) of a maintainer carrying
\* that id and having a login: its own when no other handle carries the id.
\* An id carried only by maintainers without a login gets no action.
C7_AddForMissing ==
    pc = "diffed" =>
        \A k \in KnownIds(maintainers) \ DOMAIN current_members :
            LET named == {h \in Carriers(maintainers, k) : maintainers[h].github /= None}
            IN  IF named = {} THEN k \notin DOMAIN diff
                ELSE /\ k \in DOMAIN diff
                     /\ \E h \in named : diff[k] = Add(unwrap(maintainers[h].github), k, h)

C7_Witness ==
    /\ pc = "diffed"
    /\ \E h \in DOMAIN maintainers :
          /\ maintainers[h].github_id /= None
          /\ maintainers[h].github /= None
          /\ unwrap(maintainers[h].github_id) \in DOMAIN diff
          /\ diff[unwrap(maintainers[h].github_id)] =
                Add(unwrap(maintainers[h].github), unwrap(maintainers[h].github_id), h)
          /\ \E k \in DOMAIN current_members :
                current_members[k] = unwrap(maintainers[h].github)

\* C8: a member of the team whose id the list does not know is removed under
\* its own login and id, and nothing else is removed.
C8_RemoveUnknown ==
    pc = "diffed" =>
        /\ \A k \in DOMAIN current_members \ KnownIds(maintainers) :
              k \in DOMAIN diff /\ diff[k] = Remove(current_members[k], k)
        /\ \A k \in DOMAIN diff :
              diff[k].tag = "Remove" =>
                  k \in DOMAIN current_members \ KnownIds(maintainers)

C8_Witness ==
    /\ pc = "diffed"
    /\ \E k \in DOMAIN diff : diff[k].tag = "Remove"
    /\ \E k \in DOMAIN diff : diff[k].tag = "Keep"

\* C9: the maintainers without an id do not change the diff: the diff is one
\* the list without them gives, and both lists give the same diffs.
C9_IdlessInvisible ==
    pc = "diffed" =>
        /\ diff \in Diffs(WithoutIdless(maintainers), current_members)
        /\ Diffs(maintainers, current_members) =
              Diffs(WithoutIdless(maintainers), current_members)

C9_Witness ==
    /\ pc = "diffed"
    /\ \E h \in DOMAIN maintainers :
          /\ maintainers[h].github_id = None
          /\ maintainers[h].github /= None
          /\ \E k \in DOMAIN current_members :
                /\ current_members[k] = unwrap(maintainers[h].github)
                /\ diff[k].tag = "Remove"

\* C10: once every action of the diff has been applied to the team, the diff
\* of the list and the new team holds Keep actions only.
C10_Idempotent ==
    pc = "rediffed" => \A k \in DOMAIN diff : diff[k].tag = "Keep"

C10_Witness ==
    /\ pc = "rediffed"
    /\ DOMAIN applied \ DOMAIN current_members /= {}
    /\ DOMAIN current_members \ DOMAIN applied /= {}

----------------------------------------------------------------------------
\* Properties of sync_team, stated on Spec (one run) and SpecRuns.

\* the step ran the loop body on an entry of the diff
BodyRan == pc = "loop" /\ todo' /= todo

\* the run was stopped by the change limit
Halted == pc = "done" /\ todo /= {}

\* C3: a run with the limit N issues at most N add_user and remove_user calls
\* together, and a run the limit stops returns Ok.
C3_RateLimit ==
    /\ limit /= None => mutations <= unwrap(limit)
    /\ Halted => result = Some("Ok")

C3_Witness ==
    /\ Halted
    /\ limit = Some(1)
    /\ mutations = 1
    /\ result = Some("Ok")

\* C4: when the limit stops a live run that has an invited-list path, the
\* file at that path holds the invited list of the run as it is at the stop.
C4_SavedOnHalt ==
    (Halted /\ ~dry_run /\ invited_list /= None) =>
        /\ file /= None
        /\ Invited_load(unwrap(file)) = Some(invited)

\* C5: over live runs that share the invited-list file, add_user is not issued
\* for an id that an earlier add_user succeeded for, unless a remove_user
\* succeeded for it in between.
C5_NoRepeatInvitation ==
    [][(/\ BodyRan
        /\ invited_list /= None
        /\ Len(calls') = 2
        /\ calls'[2].op = "add_user")
       => unwrap(cur').key \notin contacted]_vars

\* C6: add_user is issued for an Add only as the second call of the body,
\* after get_user on the same login returned the id of the Add; when the
\* lookup fails or returns another id it is the only call and the invited
\* list and the file are left as they were.
C6_VerifyBeforeAdd ==
    [][(BodyRan /\ unwrap(cur').action.tag = "Add") =>
         LET a == unwrap(cur').action
         IN  /\ \A i \in DOMAIN calls' :
                    calls'[i].op = "add_user" =>
                        /\ i = 2
                        /\ calls'[i].name = a.name
                        /\ calls'[1] = GetUser(a.name, Some(a.id))
             /\ (Len(calls') >= 1 /\ calls'[1].res /= Some(a.id)) =>
                    /\ Len(calls') = 1
                    /\ invited' = invited
                    /\ mutations' = mutations
                    /\ file' = file]_vars

C6_Witness ==
    /\ pc = "loop"
    /\ cur /= None
    /\ unwrap(cur).action.tag = "Add"
    /\ calls = <<GetUser(unwrap(cur).action.name, Some(unwrap(cur).key)),
                 AddUser(unwrap(cur).action.name, TRUE)>>
    /\ unwrap(cur).key \in invited

\* the Add the step yields is one the run does not attempt: its login has a
\* pending invitation up to the case of the letters, or its id is invited
SkippedAdd ==
    /\ BodyRan
    /\ unwrap(cur').action.tag = "Add"
    /\ \/ \E p \in pending_invites :
              to_lowercase(p) = to_lowercase(unwrap(cur').action.name)
       \/ unwrap(cur').action.id \in invited

\* C11: an Add whose login has a pending invitation, whatever the case of the
\* letters, or whose id is in the invited list, makes no call, leaves the
\* invited list as it is, counts one no-op and counts no addition.
C11_SkippedAdd ==
    [][SkippedAdd =>
         /\ calls' = << >>
         /\ invited' = invited
         /\ noops' = noops + 1
         /\ additions' = additions
         /\ removals' = removals
         /\ mutations' = mutations
         /\ errors' = errors]_vars

C11_Witness ==
    /\ pc = "loop"
    /\ cur /= None
    /\ unwrap(cur).action.tag = "Add"
    /\ unwrap(cur).action.name = "alice"
    /\ pending_invites = {"Alice"}
    /\ unwrap(cur).key \notin invited
    /\ noops = 1 /\ additions = 0
    /\ calls = << >>
    /\ ~dry_run

\* C12: within a run the invited list gains an id exactly in the step whose
\* add_user call for that id returned Ok; when add_user fails one error is
\* counted, the invited list stays as it is, the addition stays counted and the
\* loop goes on.
C12_LedgerOnAdd ==
    [][pc = "loop" =>
         /\ invited' /= invited => BodyRan
         /\ BodyRan =>
               LET k == unwrap(cur').key
                   a == unwrap(cur').action
                   added == /\ Len(calls') = 2
                            /\ calls'[2].op = "add_user"
                            /\ calls'[2].ok
                   failed == /\ Len(calls') = 2
                             /\ calls'[2].op = "add_user"
                             /\ ~calls'[2].ok
               IN  /\ invited' \ invited \subseteq {k}
                   /\ k \in invited' \ invited <=> added
                   /\ added => a.tag = "Add" /\ a.id = k
                   /\ failed =>
                         /\ errors' = errors + 1
                         /\ invited' = invited
                         /\ additions' = additions + 1
                         /\ pc' = "loop"
                         /\ result' = None
                         /\ todo' = todo \ {k}]_vars

C12_Witness ==
    /\ pc = "loop"
    /\ cur /= None
    /\ unwrap(cur).action.tag = "Add"
    /\ calls = <<GetUser(unwrap(cur).action.name, Some(unwrap(cur).key)),
                 AddUser(unwrap(cur).action.name, FALSE)>>
    /\ invited_list = None
    /\ invited /= {}
    /\ unwrap(cur).key \notin invited
    /\ errors = 1
    /\ additions = 2

\* C13: remove_user is issued for a Remove only as the second call of the body,
\* after get_user on the same login returned the id of the Remove; the invited
\* list loses an id only in the step whose remove_user call for it returned
\* Ok; a failed lookup, another id or a failed remove_user leave the invited
\* list as it is, and the failed lookup and the failed remove_user count one
\* error each.
C13_RemoveHandling ==
    [][(BodyRan /\ unwrap(cur').action.tag = "Remove") =>
         LET k == unwrap(cur').key
             a == unwrap(cur').action
             removed == /\ Len(calls') = 2
                        /\ calls'[2] = RemoveUser(a.name, TRUE)
         IN  /\ \A i \in DOMAIN calls' :
                    calls'[i].op = "remove_user" =>
                        /\ i = 2
                        /\ ~dry_run
                        /\ calls'[i].name = a.name
                        /\ calls'[1] = GetUser(a.name, Some(a.id))
             /\ invited \ invited' \subseteq {k}
             /\ invited' \subseteq invited
             /\ invited' /= invited => removed
             /\ removed => k \notin invited'
             /\ (Len(calls') >= 1 /\ calls'[1] = GetUser(a.name, None)) =>
                    /\ Len(calls') = 1
                    /\ errors' = errors + 1
                    /\ invited' = invited
             /\ (Len(calls') >= 1 /\ calls'[1].res \notin {None, Some(a.id)}) =>
                    /\ Len(calls') = 1
                    /\ errors' = errors
                    /\ invited' = invited
             /\ (Len(calls') = 2 /\ ~calls'[2].ok) =>
                    /\ errors' = errors + 1
                    /\ invited' = invited]_vars

C13_Witness ==
    /\ pc = "loop"
    /\ cur /= None
    /\ unwrap(cur).action.tag = "Remove"
    /\ calls = <<GetUser(unwrap(cur).action.name, Some(unwrap(cur).key)),
                 RemoveUser(unwrap(cur).action.name, TRUE)>>
    /\ file /= None
    /\ unwrap(cur).key \in unwrap(Invited_load(unwrap(file)))
    /\ unwrap(cur).key \notin invited

\* C14: a dry run issues no add_user and no remove_user call, and its invited
\* list, during the loop and at the end, and the file once it is written, hold
\* the set that was loaded at the start.
C14_DryRunNoMutation ==
    (dry_run /\ pc \in {"loop", "done"}) =>
        /\ mutations = 0
        /\ \A i \in DOMAIN calls : calls[i].op \notin {"add_user", "remove_user"}
        /\ IF invited_list /= None
           THEN /\ invited = contacted
                /\ file /= None
                /\ Invited_load(unwrap(file)) = Some(contacted)
           ELSE invited = {}

C14_Witness ==
    /\ dry_run
    /\ pc = "done"
    /\ todo = {}
    /\ additions >= 1
    /\ removals >= 1
    /\ invited_list /= None
    /\ invited /= {}
    /\ file = Some(Invited_save(invited))
    /\ mutations = 0

\* the Add or Remove the step yields is one the run attempts: a Remove, or an
\* Add whose login has no pending invitation and whose id is not invited
Attempted ==
    /\ BodyRan
    /\ \/ unwrap(cur').action.tag = "Remove"
       \/ /\ unwrap(cur').action.tag = "Add"
          /\ ~SkippedAdd

\* C15 as stated: a dry run looks the login of every attempted Add and Remove
\* up, as a live run does.
C15_Original ==
    [][(Attempted /\ dry_run) =>
         /\ Len(calls') >= 1
         /\ calls'[1].op = "get_user"
         /\ calls'[1].name = unwrap(cur').action.name]_vars

\* C15 amended: a dry run makes no call at all for an attempted Add or Remove:
\* the action is counted as an addition or a removal and neither the lookup nor
\* the mutating call is made, so no error and no id mismatch is counted; the
\* live run starts each attempted action with the lookup of its login.
C15_DryRunNoLookup ==
    [][Attempted =>
         LET a == unwrap(cur').action
         IN  /\ additions' + removals' = additions + removals + 1
             /\ a.tag = "Add" => additions' = additions + 1
             /\ a.tag = "Remove" => removals' = removals + 1
             /\ dry_run =>
                   /\ calls' = << >>
                   /\ errors' = errors
                   /\ id_mismatch' = id_mismatch
                   /\ invited' = invited
             /\ ~dry_run =>
                   /\ Len(calls') >= 1
                   /\ calls'[1].op = "get_user"
                   /\ calls'[1].name = a.name]_vars

C15_Witness ==
    /\ dry_run
    /\ pc = "loop"
    /\ cur /= None
    /\ unwrap(cur).action.tag = "Remove"
    /\ calls = << >>
    /\ removals = 1
    /\ additions = 1
    /\ noops = 0
    /\ errors = 0

\* the entries of the diff the loop has processed
Processed == noops + additions + removals

\* C16: in a run without a limit no failure of get_user, add_user or
\* remove_user stops the loop: while entries are left the run has a next step
\* and has not returned, whatever the errors counted so far, and the run ends
\* only once every entry of the diff was processed, returning Ok with the
\* invited list saved to the file when a path is configured.
C16_FailuresNotFatal ==
    limit = None =>
        /\ pc = "loop" =>
              /\ result = None
              /\ Processed = Cardinality(DOMAIN diff \ todo)
              /\ ENABLED Next
              /\ todo /= {} => \E k \in todo : ENABLED Yield(k)
        /\ pc = "done" =>
              /\ todo = {}
              /\ Processed = Cardinality(DOMAIN diff)
              /\ result = Some("Ok")
              /\ invited_list /= None => file = Some(Invited_save(invited))

C16_Witness ==
    /\ pc = "done"
    /\ limit = None
    /\ ~dry_run
    /\ errors = 2
    /\ additions = 1
    /\ removals = 1
    /\ result = Some("Ok")
    /\ invited_list /= None
    /\ file = Some(Invited_save(invited))

\* the run has issued an add_user or a remove_user call
Mutated == pc \in {"loop", "done"} /\ mutations > 0

\* C17 as stated: no add_user or remove_user call is issued in a run before
\* check_user_hash has scored a claim in that run.
C17_Original == Mutated => confidence /= None

\* C17 amended: sync_team never scores a claim; what lets an add_user or a
\* remove_user call through is the run's own checks: the call is the second of
\* a live body, after get_user on the login returned the id of the action, and
\* an add_user call is made only for a login without a pending invitation and
\* an id that is not invited.
C17_GatedByLookup ==
    [][BodyRan =>
         LET a == unwrap(cur').action
         IN  /\ claimed' = None /\ commit_hash' = None
             /\ commit' = None /\ confidence' = None
             /\ \A i \in DOMAIN calls' :
                    calls'[i].op \in {"add_user", "remove_user"} =>
                        /\ i = 2
                        /\ ~dry_run
                        /\ calls'[1] = GetUser(a.name, Some(a.id))
                        /\ calls'[i].op = "remove_user" => a.tag = "Remove"
                        /\ calls'[i].op = "add_user" =>
                              /\ a.tag = "Add"
                              /\ a.id \notin invited
                              /\ \A p \in pending_invites :
                                    to_lowercase(p) /= to_lowercase(a.name)]_vars

C17_Witness ==
    /\ Mutated
    /\ confidence = None
    /\ pc = "loop"
    /\ cur /= None
    /\ unwrap(cur).action.tag = "Add"
    /\ pending_invites = {"bob"}
    /\ Len(calls) = 2
    /\ calls[2] = AddUser("alice", TRUE)

----------------------------------------------------------------------------
\* Properties of check_user_hash, stated on SpecScore.

\* the commit was fetched and the claim was scored against its author
ScoredFetched == pc = "scored" /\ commit /= None

\* the claimed login, the login of the author and the hash are those of one of
\* the three special arms
OverrideNamed ==
    <<unwrap(claimed).github_name, unwrap(commit).login, unwrap(commit_hash)>>
        \in Overrides

\* the verdict of the general arms
TableVerdict ==
    LET name_match == to_lowercase(unwrap(claimed).github_name) =
                          to_lowercase(unwrap(commit).login)
        id_match == unwrap(claimed).github_id = unwrap(commit).id
    IN  IF name_match /\ id_match THEN "Total"
        ELSE IF name_match THEN "BadAttribution"
        ELSE IF id_match THEN "ChangedHandle"
        ELSE "MismatchedNameAndID"

\* C18: for a fetched commit that none of the three special arms names, the
\* verdict is Total when login and id match, BadAttribution when only the
\* login matches, ChangedHandle when only the id matches and
\* MismatchedNameAndID when neither does; logins match up to the case of the
\* letters, ids match when equal.
C18_DecisionTable ==
    (ScoredFetched /\ ~OverrideNamed) => confidence = Some(TableVerdict)

C18_Witness ==
    /\ ScoredFetched
    /\ ~OverrideNamed
    /\ unwrap(claimed).github_name = "Alice"
    /\ unwrap(commit).login = "alice"
    /\ unwrap(claimed).github_id /= unwrap(commit).id
    /\ confidence = Some("BadAttribution")

\* C19 as stated: a claim that one of the three special arms names is scored
\* Total whatever the claimed id and the id of the author.
C19_Original ==
    (ScoredFetched /\ OverrideNamed) => confidence = Some("Total")

\* C19 amended: a claim that one of the three special arms names is scored
\* Total when the claimed id differs from the id of the author, where the
\* general arms would give MismatchedNameAndID; when the two ids are equal the
\* special arm does not match and the verdict is ChangedHandle.
C19_OverrideOnMismatch ==
    (ScoredFetched /\ OverrideNamed) =>
        /\ unwrap(claimed).github_id /= unwrap(commit).id =>
              /\ confidence = Some("Total")
              /\ TableVerdict = "MismatchedNameAndID"
        /\ unwrap(claimed).github_id = unwrap(commit).id =>
              confidence = Some("ChangedHandle")

C19_Witness ==
    /\ ScoredFetched
    /\ claimed = Some([github_name |-> "zx2c4", github_id |-> 1])
    /\ commit = Some([login |-> "Mic92", id |-> 2])
    /\ commit_hash = Some("6b1087d9b135c94b929fec3d4cf3724b9539c6b5")
    /\ confidence = Some("Total")

\* C20: when the commit cannot be fetched the verdict is Some(CommitMissing),
\* whatever the claim, the claims the special arms name included.
C20_CommitMissing ==
    (pc = "scored" /\ commit = None) => confidence = Some("CommitMissing")

C20_Witness ==
    /\ pc = "scored"
    /\ commit = None
    /\ unwrap(claimed).github_name = "rlupton20"
    /\ commit_hash = Some("5bd136acd4c683b30470b5dfbb6f0b15dcea42a5")
    /\ confidence = Some("CommitMissing")

----------------------------------------------------------------------------
\* Properties of commit_for_user, stated on SpecResolve.

\* the hashes of the barrier list
BarrierSet == {Barriers[i] : i \in DOMAIN Barriers}

\* the source i lists the handle at a line its hash list has
ListedInRange(i) ==
    /\ unwrap(user) \in DOMAIN sources[i][2]
    /\ sources[i][2][unwrap(user)] + 1 \in 1..Len(sources[i][1])

\* the hash the source i holds at the line of the handle
HashOfUser(i) == sources[i][1][sources[i][2][unwrap(user)] + 1]

\* the sources that hold a hash that is not a barrier at the line of the handle
Answering ==
    {i \in 1..Len(sources) : ListedInRange(i) /\ HashOfUser(i) \notin BarrierSet}

\* C21: commit_for_user returns the hash at the line of the handle in the
\* first source, from the most recent, that lists the handle and holds there
\* a hash that is not a barrier, and goes through no source after that one; it
\* returns None exactly when no source holds such a hash.
C21_BarrierSkipping ==
    pc = "resolved" =>
        IF Answering = {}
        THEN resolved = None /\ examined = Len(sources)
        ELSE LET first == CHOOSE i \in Answering : \A j \in Answering : i <= j
             IN  /\ resolved = Some(HashOfUser(first))
                 /\ unwrap(resolved) \notin BarrierSet
                 /\ examined = first

C21_Witness ==
    /\ pc = "resolved"
    /\ Len(sources) = 2
    /\ ListedInRange(1)
    /\ HashOfUser(1) \in BarrierSet
    /\ resolved = Some(HashOfUser(2))
    /\ examined = 2

\* the next source lists the handle at a line beyond the end of its hash list
BadLineNext ==
    /\ pc = "resolving"
    /\ examined < Len(sources)
    /\ unwrap(user) \in DOMAIN sources[examined + 1][2]
    /\ sources[examined + 1][2][unwrap(user)] >= Len(sources[examined + 1][1])

\* C30: a source that lists the handle at a line beyond the end of its hash
\* list gives no answer: the loop goes on to the next source without
\* returning, and no hash of another line of that source is returned.
C30_BadLineTolerated ==
    [][BadLineNext =>
         /\ pc' = "resolving"
         /\ resolved' = None
         /\ examined' = examined + 1
         /\ sources' = sources]_vars

C30_Witness ==
    /\ pc = "resolved"
    /\ Len(sources) = 2
    /\ unwrap(user) \in DOMAIN sources[1][2]
    /\ Len(sources[1][1]) > 0
    /\ sources[1][2][unwrap(user)] >= Len(sources[1][1])
    /\ sources[1][1][Len(sources[1][1])] \notin BarrierSet
    /\ ListedInRange(2)
    /\ resolved = Some(HashOfUser(2))

----------------------------------------------------------------------------
\* Properties of Invited, stated on SpecLedger.

\* the step is a call of Invited::load
Loads == LedgerAtHand /\ pc' \in {"loaded", "reloaded", "load_failed"}

\* C22: Invited::load of the file that Invited::save has just written
\* succeeds and gives the ids that were saved, as many as there were.
C22_RoundTrip ==
    [][(pc = "saved" /\ Loads) =>
         /\ pc' = "reloaded"
         /\ result' = Some("Ok")
         /\ invited' = invited
         /\ Invited_len(invited') = Invited_len(invited)]_vars

C22_Witness ==
    /\ pc = "reloaded"
    /\ invited = {0, 2, 18}
    /\ Invited_len(invited) = 3
    /\ result = Some("Ok")

\* the line is a decimal number as u64::to_string writes it
Canonical(line) ==
    /\ Len(line) >= 1
    /\ \A i \in DOMAIN line : is_digit(line[i])
    /\ Len(line) > 1 => line[1] /= "0"

\* C24: Invited::load of a path where no file lies returns Ok with no id,
\* and an empty file lies at the path afterwards.
C24_LoadCreates ==
    [][(file = None /\ Loads) =>
         /\ pc' = "loaded"
         /\ result' = Some("Ok")
         /\ invited' = {}
         /\ Invited_len(invited') = 0
         /\ file' = Some(<< >>)]_vars

C24_Witness ==
    /\ pc = "loaded"
    /\ invited = {}
    /\ file = Some(<< >>)
    /\ \A id \in LedgerIDs : last_op[id] = "none"
    /\ result = Some("Ok")

\* C25: the file Invited::save writes holds one line for each id, each the
\* decimal number of an id of the ledger, the numbers strictly ascending from
\* line to line: the content is fixed by the set of ids, whatever calls of add
\* and remove built it.
C25_DeterministicSave ==
    pc = "saved" =>
        /\ file /= None
        /\ LET lines == unwrap(file)
           IN  /\ Len(lines) = Cardinality(invited)
               /\ \A i \in DOMAIN lines :
                      /\ Canonical(lines[i])
                      /\ digits_value(lines[i]) \in invited
               /\ \A i, j \in DOMAIN lines :
                      i < j => digits_value(lines[i]) < digits_value(lines[j])

C25_Witness ==
    /\ pc = "saved"
    /\ invited = {2, 18}
    /\ file = Some(<<<<"2">>, <<"1", "8">>>>)
    /\ last_op[2] = "add"
    /\ last_op[18] = "none"
    /\ last_op[1] = "remove"

\* C26: an id whose last call was add is contained and one whose last call
\* was remove is not, len() is the number of ids contained, a call of add
\* adds its id and nothing else, a call of remove removes its id and nothing
\* else, and a call that repeats the last call on its id changes nothing.
C26_SetSemantics ==
    /\ [](LedgerAtHand =>
            /\ \A id \in LedgerIDs :
                  /\ last_op[id] = "add" => Invited_contains(invited, id)
                  /\ last_op[id] = "remove" => ~Invited_contains(invited, id)
            /\ Invited_len(invited) =
                  Cardinality({id \in LedgerIDs : Invited_contains(invited, id)}))
    /\ [][pc' \in {"added", "removed"} =>
            IF last_op' = last_op THEN invited' = invited
            ELSE \E id \in LedgerIDs :
                    /\ last_op' = [last_op EXCEPT
                                      ![id] = IF pc' = "added" THEN "add" ELSE "remove"]
                    /\ \A other \in LedgerIDs \ {id} :
                          Invited_contains(invited', other) =
                              Invited_contains(invited, other)
                    /\ Invited_contains(invited', id) = (pc' = "added")
                    /\ (pc' = "added" /\ Invited_contains(invited, id)) =>
                          invited' = invited
                    /\ (pc' = "removed" /\ ~Invited_contains(invited, id)) =>
                          invited' = invited]_vars

C26_Witness ==
    /\ pc = "added"
    /\ last_op[0] = "add"
    /\ last_op[1] = "remove"
    /\ last_op[18] = "add"
    /\ invited = {0, 2, 18}
    /\ Invited_len(invited) = 3

----------------------------------------------------------------------------
\* The invited list of a run that cannot be loaded, stated on Spec.

\* the file at the invited-list path has a line that is not a decimal u64,
\* with or without a plus sign before the digits
Malformed ==
    /\ file /= None
    /\ \E i \in DOMAIN unwrap(file) :
          LET line == unwrap(file)[i]
              digits == IF Len(line) > 0 /\ line[1] = "+" THEN Tail(line) ELSE line
          IN  Len(digits) = 0 \/ \E j \in DOMAIN digits : ~is_digit(digits[j])

\* C23: a run given the path of a file with a line that is not a u64, a blank
\* line included, returns the error of Invited::load: no loop body runs, no
\* add_user or remove_user call is issued and the file is left as it was.
C23_MalformedLedgerFatal ==
    /\ [][(pc = "idle" /\ pc' /= "idle" /\ invited_list' /= None /\ Malformed) =>
            /\ pc' = "failed"
            /\ result' = Some("Err")
            /\ file' = file
            /\ mutations' = 0
            /\ calls' = << >>
            /\ cur' = None]_vars
    /\ [][pc = "failed" => UNCHANGED vars]_vars

C23_Witness ==
    /\ pc = "failed"
    /\ result = Some("Err")
    /\ file = Some(<<to_string(1), << >>, to_string(2)>>)
    /\ ~dry_run
    /\ mutations = 0

----------------------------------------------------------------------------
\* What the limit of a run counts, stated on Spec.

\* the value the loop compares with the limit
Changed == additions + removals

\* C28: the value compared with the limit grows by one with every Remove and
\* with every Add that is not skipped, whatever the lookup returns and in a
\* dry run too, and stays as it is with a Keep and with a skipped Add; the
\* loop body runs only below the limit and the run stops at it.
C28_ChangeCount ==
    [][pc = "loop" =>
         /\ BodyRan =>
               /\ limit /= None => Changed < unwrap(limit)
               /\ Changed' = Changed +
                     (IF unwrap(cur').action.tag = "Keep" \/ SkippedAdd THEN 0 ELSE 1)
               /\ unwrap(cur').action.tag = "Remove" => removals' = removals + 1
               /\ Attempted /\ unwrap(cur').action.tag = "Add" =>
                     additions' = additions + 1
         /\ (pc' = "done" /\ todo /= {}) =>
               /\ limit /= None
               /\ Changed >= unwrap(limit)
               /\ Changed' = Changed]_vars

C28_Witness ==
    /\ Halted
    /\ limit = Some(1)
    /\ additions = 1
    /\ removals = 0
    /\ noops = 0
    /\ mutations = 0
    /\ errors = 1
    /\ ~dry_run

----------------------------------------------------------------------------
\* Properties of backfill_file, stated on SpecMunge.

\* the keys of the map that equal the login of a github line, as GitHubName
\* compares them
KeysOf(m, line) ==
    IF captures(line) = None THEN {}
    ELSE {k \in DOMAIN m : GitHubName_eq(k, unwrap(captures(line)).name)}

\* the text the file becomes when every line is kept and the first github
\* line of each key of the map is followed by its githubId line
RECURSIVE Backfilled(_, _)
Backfilled(lines, m) ==
    IF lines = << >> THEN << >>
    ELSE IF KeysOf(m, Head(lines)) = {}
    THEN <<Head(lines)>> \o Backfilled(Tail(lines), m)
    ELSE LET key == CHOOSE k \in KeysOf(m, Head(lines)) : TRUE
         IN  <<Head(lines),
               github_id_line(unwrap(captures(Head(lines))).leading_space, m[key])>>
             \o Backfilled(Tail(lines), remove(m, key))

\* C27: the text backfill_file returns is its input with, directly after the
\* first line `<whitespace>github = "<name>";` of each name that is a key of
\* the map, the one line `<same whitespace>githubId = <id>;`, and nothing else
C27_BackfillText ==
    pc = "munged" => output = Backfilled(input, found_ids)

\* a file was munged whose github line names a key of the map in another case
C27_OtherCase ==
    /\ pc = "munged"
    /\ \E i \in DOMAIN input :
          /\ KeysOf(found_ids, input[i]) /= {}
          /\ same_keys(found_ids, unwrap(captures(input[i])).name) = {}

\* C27, for the files whose logins are written as the keys of the map are:
\* the text returned is the input with the githubId lines after the first
\* github line of each key
C27_SameCase ==
    (pc = "munged" /\ ~C27_OtherCase) => output = Backfilled(input, found_ids)

\* a login was given its id once and its second github line was left alone
C27_SameCaseWitness ==
    /\ pc = "munged"
    /\ Len(input) = 2
    /\ input[1] = input[2]
    /\ Len(output) = 3
    /\ output[2] = <<" ", " ", "githubId = ", "2", ";">>
----------------------------------------------------------------------------
\* Properties of backfill_ids, stated on SpecBackfill.

\* the line that opens the entry of a handle
IsHeader(line) == \E h \in Handles : line = <<" ", h>>

\* the lines of the entry of a handle in a text
EntryOf(text, h) ==
    LET i == CHOOSE i \in DOMAIN text : text[i] = <<" ", h>>
        inside == {j \in (i + 1)..Len(text) :
                     \A k \in (i + 1)..j : ~IsHeader(text[k])}
    IN  SubSeq(text, i + 1, i + Cardinality(inside))

\* the number of githubId lines among the lines of an entry
IdLines(entry) ==
    Cardinality({i \in DOMAIN entry :
                   \E k \in DOMAIN entry[i] : entry[i][k] = "githubId = "})

\* the entry of the handle has a githubId line in the printed file that it
\* did not have in the file read
GotId(h) == IdLines(EntryOf(output, h)) > IdLines(EntryOf(input, h))

\* the lookup of the handle succeeded and its confidence was Total
EarnedId(h) ==
    /\ h \in DOMAIN verdicts
    /\ verdicts[h].user /= None
    /\ verdicts[h].confidence = Some("Total")

\* C29: backfill_ids looks up only the maintainers with a login and no id,
\* and a maintainer has a backfilled id in the printed file only when its
\* lookup succeeded and confidence_for_user returned Total for it
C29_GatedOnTotal ==
    /\ DOMAIN verdicts \subseteq missing(maintainers)
    /\ pc = "munged" => \A h \in Handles : GotId(h) => EarnedId(h)

\* two entries of the maintainer list name the same login
SharedLogin ==
    \E h1, h2 \in Handles :
        /\ h1 /= h2
        /\ maintainers[h1].github /= None
        /\ maintainers[h2].github /= None
        /\ GitHubName_eq(unwrap(maintainers[h1].github), unwrap(maintainers[h2].github))

\* C29, for the lists in which no two entries name the same login: a
\* maintainer has a backfilled id only when its confidence was Total
C29_DistinctLogins ==
    /\ DOMAIN verdicts \subseteq missing(maintainers)
    /\ (pc = "munged" /\ ~SharedLogin) => \A h \in Handles : GotId(h) => EarnedId(h)

\* one maintainer was given its id and another, of MismatchedNameAndID, was
\* not
C29_DistinctLoginsWitness ==
    /\ pc = "munged"
    /\ ~SharedLogin
    /\ GotId("h1")
    /\ "h2" \in DOMAIN verdicts
    /\ verdicts["h2"].confidence = Some("MismatchedNameAndID")
    /\ ~GotId("h2")
====
